---- MODULE Spec2Model ----
(***************************************************************************)
(* A model of streamlit_app.py: a Streamlit script that is re-executed     *)
(* from top to bottom on every user interaction of a browser session.      *)
(* The four loaders are memoised by st.cache_data (shared by all sessions),*)
(* the three selectboxes form a province -> district -> town cascade, and  *)
(* the folium map is composed from the filtered rows, the boundary         *)
(* features and the two facility layers.                                   *)
(*                                                                         *)
(* Names (province, district, town, ADM2_FR, facility name) are modelled   *)
(* by positive naturals whose order is the string order sorted() uses.     *)
(***************************************************************************)
EXTENDS Naturals, Sequences, FiniteSets

VARIABLES
    disk,       \* the four files as they are on disk now
    cache,      \* st.cache_data: one entry per loader
    reads,      \* how often each loader's body has executed (saturating)
    sessions,   \* the browser sessions connected to the server
    widgets,    \* per session: the widget state Streamlit keeps between runs
    out         \* per session: what the last script run produced

vars == <<disk, cache, reads, sessions, widgets, out>>

----------------------------------------------------------------------------
(* Bounds of the model *)

MaxRows == 3        \* longest location table of the drill-down specification
MaxFacilities == 1  \* longest hospital / port table
MaxFeatures == 2    \* most features in the shapes file
MaxReads == 2       \* the read counters saturate here

Names == {1, 2}
Points == {<<1, 3>>, <<2, 4>>}      \* <<Lat, Lon>>

----------------------------------------------------------------------------
(* Values *)

\* Python's None: what an empty selectbox returns, what dict.get returns for
\* a key that is absent, what load_admin2_geojson returns for a missing file.
None == 0

ZoomSelected == 10
ZoomFallback == 2
FallbackCentre == <<0, 0>>

RECURSIVE SeqsUpTo(_, _)
SeqsUpTo(S, n) ==
    IF n = 0 THEN {<<>>}
    ELSE LET shorter == SeqsUpTo(S, n - 1)
         IN  shorter \cup {Append(q, x) : q \in {t \in shorter : Len(t) = n - 1}, x \in S}

LocationRecord ==
    {[Admin1 |-> a, Admin2 |-> b, Admin3 |-> c, Lat |-> p[1], Lon |-> p[2]] :
        a \in Names, b \in Names, c \in Names, p \in Points}

FacilityRecord ==
    {[Name |-> n, Lat |-> p[1], Lon |-> p[2]] : n \in {1}, p \in Points}

BoundaryFeature ==
    {[hasADM2 |-> TRUE, ADM2_FR |-> n] : n \in Names}
        \cup {[hasADM2 |-> FALSE, ADM2_FR |-> None]}

\* A CSV file on disk: readable with these rows, or one pd.read_csv raises on.
CsvFile(rows) == [ok |-> TRUE, rows |-> rows]
CsvBroken == [ok |-> FALSE, rows |-> <<>>]

\* What json.load returns / load_admin2_geojson returns.
GeoNone == [kind |-> "none", features |-> <<>>]
GeoEmptyDict == [kind |-> "empty", features |-> <<>>]
GeoCollection(fs) == [kind |-> "collection", features |-> fs]

\* The shapes file on disk: absent, present and parseable, or present and
\* not valid JSON.
GeoMissing == [exists |-> FALSE, valid |-> FALSE, doc |-> GeoNone]
GeoMalformed == [exists |-> TRUE, valid |-> FALSE, doc |-> GeoNone]
GeoFile(doc) == [exists |-> TRUE, valid |-> TRUE, doc |-> doc]

----------------------------------------------------------------------------
(* pandas / builtins used by the script *)

\* Series.unique(): the distinct values in order of first appearance.
RECURSIVE Unique(_)
Unique(s) ==
    IF s = <<>> THEN <<>>
    ELSE LET front == Unique(SubSeq(s, 1, Len(s) - 1))
             x == s[Len(s)]
         IN  IF \E i \in 1..Len(front) : front[i] = x THEN front ELSE Append(front, x)

\* insertion of x into an ascending sequence, after the elements <= x
RECURSIVE Insert(_, _)
Insert(x, s) ==
    IF s = <<>> THEN <<x>>
    ELSE IF x < s[1] THEN <<x>> \o s
    ELSE <<s[1]>> \o Insert(x, Tail(s))

\* A variant of Sorted that leaves the values in file order.
SortedKeepsFileOrder(s) == s

\* sorted(): ascending, stable
RECURSIVE Sorted(_)
Sorted(s) ==
    IF s = <<>> THEN <<>>
    ELSE Insert(s[Len(s)], Sorted(SubSeq(s, 1, Len(s) - 1)))

Column(rows, col) == [i \in 1..Len(rows) |-> rows[i][col]]

\* data[data[col] == v]: the rows whose column equals v, in file order
FilterEq(rows, col, v) == SelectSeq(rows, LAMBDA r : r[col] = v)

\* sorted(data[col].unique())
Options(rows, col) == Sorted(Unique(Column(rows, col)))

----------------------------------------------------------------------------
(* Streamlit primitives *)

Loaders == {"loc", "hosp", "port", "geo"}

\* The body of the three CSV loaders: pd.read_csv returns the table or raises.
ReadCsv(file) == [raised |-> ~file.ok, value |-> file.rows]

\* The body of load_admin2_geojson: a missing file is a warning and None,
\* a present file is json.load's result, or json.load's exception.
LoadAdmin2Geojson(file) ==
    IF file.exists
    THEN [raised |-> ~file.valid, value |-> file.doc]
    ELSE [raised |-> FALSE, value |-> GeoNone]

\* A variant of CacheData that runs the body on every call.
CacheDataAlwaysRuns(entry, body) ==
    IF body.raised
    THEN [raised |-> TRUE, value |-> body.value, entry |-> entry, ran |-> TRUE]
    ELSE [raised |-> FALSE, value |-> body.value,
          entry |-> [hit |-> TRUE, value |-> body.value], ran |-> TRUE]

\* @st.cache_data around a loader without arguments: a stored return value is
\* returned without running the body; otherwise the body runs, its return value
\* is stored, and an exception propagates with nothing stored.
CacheData(entry, body) ==
    IF entry.hit
    THEN [raised |-> FALSE, value |-> entry.value, entry |-> entry, ran |-> FALSE]
    ELSE IF body.raised
    THEN [raised |-> TRUE, value |-> body.value, entry |-> entry, ran |-> TRUE]
    ELSE [raised |-> FALSE, value |-> body.value,
          entry |-> [hit |-> TRUE, value |-> body.value], ran |-> TRUE]

\* The state Streamlit keeps for a selectbox without a key: the widget is
\* identified by its label and options, so a stored choice applies only to a
\* selectbox rendered with the same options.
NoSelect == [opts |-> <<>>, idx |-> 0]
NoWidgets ==
    [a1 |-> NoSelect, a2 |-> NoSelect, a3 |-> NoSelect, hosp |-> FALSE, port |-> FALSE]

\* A variant of Selectbox that returns the value chosen last, whether or not
\* the options still hold it.
SelectboxKeepsValue(state, options) ==
    IF options = <<>>
    THEN [value |-> None, state |-> NoSelect]
    ELSE IF state.idx > 0
    THEN [value |-> state.opts[state.idx],
          state |-> [opts |-> options, idx |-> 1]]
    ELSE [value |-> options[1], state |-> [opts |-> options, idx |-> 1]]

\* st.selectbox(label, options): the stored choice of this widget, else the
\* first option, else None when there is no option.
Selectbox(state, options) ==
    IF options = <<>>
    THEN [value |-> None, state |-> NoSelect]
    ELSE LET i == IF state.opts = options THEN state.idx ELSE 1
         IN  [value |-> options[i], state |-> [opts |-> options, idx |-> i]]

----------------------------------------------------------------------------
(* The script, section by section *)

\* with col3: the town dropdown over the district's rows, and final_data
Col3(s1, s2, filtered_data_admin2, s3) ==
    [admin1_options |-> s1.state.opts, selected_admin1 |-> s1.value,
     admin2_options |-> s2.state.opts, selected_admin2 |-> s2.value,
     admin3_options |-> s3.state.opts, selected_admin3 |-> s3.value,
     final_data |-> FilterEq(filtered_data_admin2, "Admin3", s3.value),
     a1 |-> s1.state, a2 |-> s2.state, a3 |-> s3.state]

\* filtered_data_admin2 and its options, given the district chosen
Col2Chosen(w, s1, filtered_data_admin1, s2) ==
    Col3(s1, s2, FilterEq(filtered_data_admin1, "Admin2", s2.value),
         Selectbox(w.a3, Options(FilterEq(filtered_data_admin1, "Admin2", s2.value),
                                 "Admin3")))

\* with col2: the district dropdown over the province's rows
Col2(w, s1, filtered_data_admin1) ==
    Col2Chosen(w, s1, filtered_data_admin1,
               Selectbox(w.a2, Options(filtered_data_admin1, "Admin2")))

\* filtered_data_admin1, given the province chosen
Col1Chosen(data, w, s1) == Col2(w, s1, FilterEq(data, "Admin1", s1.value))

\* The three dropdowns and final_data; with col1: the province dropdown.
\* (A Selectbox result carries the options it was rendered with in state.opts.)
Cascade(data, w) == Col1Chosen(data, w, Selectbox(w.a1, Options(data, "Admin1")))

LocationMarker(row) ==
    [Lat |-> row.Lat, Lon |-> row.Lon, popup |-> <<row.Admin1, row.Admin2, row.Admin3>>]

FacilityMarker(row) == [Lat |-> row.Lat, Lon |-> row.Lon, popup |-> <<row.Name>>]

\* A variant of CentreRow that takes the last matching row.
CentreRowLast(final_data) == final_data[Len(final_data)]

\* final_data.iloc[0]: the row that gives the centre and the coordinates line
CentreRow(final_data) == final_data[1]

\* A variant of BaseMap whose fallback map keeps the zoom of a located map.
BaseMapKeepsZoom(final_data) ==
    IF final_data # <<>>
    THEN [coordinates |-> <<CentreRow(final_data).Lat, CentreRow(final_data).Lon>>,
          centre |-> <<CentreRow(final_data).Lat, CentreRow(final_data).Lon>>,
          zoom |-> ZoomSelected,
          markers |-> [i \in 1..Len(final_data) |-> LocationMarker(final_data[i])],
          no_data |-> FALSE]
    ELSE [coordinates |-> <<>>, centre |-> FallbackCentre, zoom |-> ZoomSelected,
          markers |-> <<>>, no_data |-> TRUE]

\* The base map: centred on the first matching record with one marker per
\* matching record, or the fallback map.
BaseMap(final_data) ==
    IF final_data # <<>>
    THEN [coordinates |-> <<CentreRow(final_data).Lat, CentreRow(final_data).Lon>>,
          centre |-> <<CentreRow(final_data).Lat, CentreRow(final_data).Lon>>,
          zoom |-> ZoomSelected,
          markers |-> [i \in 1..Len(final_data) |-> LocationMarker(final_data[i])],
          no_data |-> FALSE]
    ELSE [coordinates |-> <<>>, centre |-> FallbackCentre, zoom |-> ZoomFallback,
          markers |-> <<>>, no_data |-> TRUE]

\* if admin2_geojson: a dict with at least one key
Truthy(geojson) == geojson.kind = "collection"

\* feature.get("properties", {}).get("ADM2_FR")
Adm2Fr(feature) == IF feature.hasADM2 THEN feature.ADM2_FR ELSE None

\* The features kept for the overlay.
FilteredFeatures(geojson, selected_admin2) ==
    SelectSeq(geojson.features, LAMBDA feature : Adm2Fr(feature) = selected_admin2)

\* The boundary overlay: the layer added to the map, or the info message.
Admin2Overlay(geojson, selected_admin2) ==
    IF Truthy(geojson)
    THEN LET filtered_features == FilteredFeatures(geojson, selected_admin2)
         IN  IF filtered_features # <<>>
             THEN [layer |-> TRUE, features |-> filtered_features, info |-> FALSE]
             ELSE [layer |-> FALSE, features |-> <<>>, info |-> TRUE]
    ELSE [layer |-> FALSE, features |-> <<>>, info |-> FALSE]

\* A variant of FacilityLayer that swallows the loader's exception.
FacilityLayerSwallowsError(checked, load) ==
    IF ~checked \/ load.raised THEN [present |-> FALSE, markers |-> <<>>, error |-> FALSE]
    ELSE [present |-> TRUE,
          markers |-> [i \in 1..Len(load.value) |-> FacilityMarker(load.value[i])],
          error |-> FALSE]

\* A variant of FacilityLayer that adds no layer for a table without rows.
FacilityLayerSkipsEmpty(checked, load) ==
    IF ~checked THEN [present |-> FALSE, markers |-> <<>>, error |-> FALSE]
    ELSE IF load.raised THEN [present |-> FALSE, markers |-> <<>>, error |-> TRUE]
    ELSE [present |-> load.value # <<>>,
          markers |-> [i \in 1..Len(load.value) |-> FacilityMarker(load.value[i])],
          error |-> FALSE]

\* One facility section: unchecked, load error, or a layer with one marker
\* per row.
FacilityLayer(checked, load) ==
    IF ~checked THEN [present |-> FALSE, markers |-> <<>>, error |-> FALSE]
    ELSE IF load.raised THEN [present |-> FALSE, markers |-> <<>>, error |-> TRUE]
    ELSE [present |-> TRUE,
          markers |-> [i \in 1..Len(load.value) |-> FacilityMarker(load.value[i])],
          error |-> FALSE]

\* A variant of LayersAddedInit that carries the flag over from the last run.
LayersAddedKept(previous) == previous

\* layers_added starts False in every run.
LayersAddedInit(previous) == FALSE

\* if layers_added or admin2_geojson: one LayerControl
LayerControls(layers_added, geojson) ==
    IF layers_added \/ Truthy(geojson) THEN 1 ELSE 0

----------------------------------------------------------------------------
(* One run of the script *)

NoMap ==
    [centre |-> <<>>, zoom |-> 0, markers |-> <<>>,
     boundary |-> [layer |-> FALSE, features |-> <<>>],
     hospitals |-> [present |-> FALSE, markers |-> <<>>],
     ports |-> [present |-> FALSE, markers |-> <<>>],
     layer_controls |-> 0]

\* What a run shows. status: "none" before the first run, "stopped" after
\* st.stop(), "crashed" after an uncaught exception, "rendered" after st_folium.
NoRender ==
    [status |-> "none", errors |-> {}, no_data |-> FALSE, info_no_polygon |-> FALSE,
     admin1_options |-> <<>>, selected_admin1 |-> None,
     admin2_options |-> <<>>, selected_admin2 |-> None,
     admin3_options |-> <<>>, selected_admin3 |-> None,
     final_data |-> <<>>, coordinates |-> <<>>,
     layers_added |-> FALSE, map |-> NoMap, ran |-> {}]

\* The widget state after a run that ended early: whether Streamlit keeps or
\* forgets the state of the widgets the run did not reach depends on its
\* version (keep).
Unreached(keep, old) == IF keep THEN old ELSE FALSE

\* What the run shows once the dropdowns and the base map are done.
Shown(cas, base) ==
    [NoRender EXCEPT
        !.admin1_options = cas.admin1_options, !.selected_admin1 = cas.selected_admin1,
        !.admin2_options = cas.admin2_options, !.selected_admin2 = cas.selected_admin2,
        !.admin3_options = cas.admin3_options, !.selected_admin3 = cas.selected_admin3,
        !.final_data = cas.final_data,
        !.coordinates = base.coordinates, !.no_data = base.no_data]

Ran(l, load) == IF load.ran THEN {l} ELSE {}

\* Lines 189-196: the layer control and st_folium.
Finish(w, c, loc, cas, base, geo, overlay, hospLoad, hospital, portLoad, port, layers_added) ==
    [cache |-> [loc |-> loc.entry, geo |-> geo.entry,
                hosp |-> IF w.hosp THEN hospLoad.entry ELSE c.hosp,
                port |-> IF w.port THEN portLoad.entry ELSE c.port],
     widgets |-> [a1 |-> cas.a1, a2 |-> cas.a2, a3 |-> cas.a3,
                  hosp |-> w.hosp, port |-> w.port],
     out |-> [Shown(cas, base) EXCEPT
                !.status = "rendered",
                !.errors = (IF hospital.error THEN {"hospital"} ELSE {})
                             \cup (IF port.error THEN {"port"} ELSE {}),
                !.info_no_polygon = overlay.info,
                !.layers_added = layers_added,
                !.ran = Ran("loc", loc) \cup Ran("geo", geo)
                          \cup (IF w.hosp THEN Ran("hosp", hospLoad) ELSE {})
                          \cup (IF w.port THEN Ran("port", portLoad) ELSE {}),
                !.map = [centre |-> base.centre, zoom |-> base.zoom,
                         markers |-> base.markers,
                         boundary |-> [layer |-> overlay.layer,
                                       features |-> overlay.features],
                         hospitals |-> [present |-> hospital.present,
                                        markers |-> hospital.markers],
                         ports |-> [present |-> port.present, markers |-> port.markers],
                         layer_controls |-> LayerControls(layers_added, geo.value)]]]

\* Lines 140-187: layers_added and the two checkbox sections.
Facilities(w, previous_layers_added, c, loc, cas, base, geo, overlay, hospLoad, hospital, portLoad, port) ==
    Finish(w, c, loc, cas, base, geo, overlay, hospLoad, hospital, portLoad, port,
           LayersAddedInit(previous_layers_added) \/ hospital.present \/ port.present)

\* Lines 110-135: the boundary overlay; an exception of the loader is not caught.
Overlay(w, previous_layers_added, c, d, keep, loc, cas, base, geo, hospLoad, portLoad) ==
    IF geo.raised
    THEN [cache |-> [c EXCEPT !.loc = loc.entry],
          widgets |-> [a1 |-> cas.a1, a2 |-> cas.a2, a3 |-> cas.a3,
                       hosp |-> Unreached(keep, w.hosp),
                       port |-> Unreached(keep, w.port)],
          out |-> [Shown(cas, base) EXCEPT !.status = "crashed",
                                           !.ran = Ran("loc", loc) \cup {"geo"}]]
    ELSE Facilities(w, previous_layers_added, c, loc, cas, base, geo,
                    Admin2Overlay(geo.value, cas.selected_admin2),
                    hospLoad, FacilityLayer(w.hosp, hospLoad),
                    portLoad, FacilityLayer(w.port, portLoad))

\* Lines 69-105: the dropdowns and the base map.
Dropdowns(w, previous_layers_added, c, d, keep, loc, cas) ==
    Overlay(w, previous_layers_added, c, d, keep, loc, cas, BaseMap(cas.final_data),
            CacheData(c.geo, LoadAdmin2Geojson(d.geo)),
            CacheData(c.hosp, ReadCsv(d.hosp)),
            CacheData(c.port, ReadCsv(d.port)))

\* Lines 48-52: the location table, or the error and st.stop().
Location(w, previous_layers_added, c, d, keep, loc) ==
    IF loc.raised
    THEN [cache |-> c,
          widgets |-> IF keep THEN w ELSE NoWidgets,
          out |-> [NoRender EXCEPT !.status = "stopped", !.errors = {"location"},
                                   !.ran = {"loc"}]]
    ELSE Dropdowns(w, previous_layers_added, c, d, keep, loc, Cascade(loc.value, w))

\* The whole script: w the session's widget state, c the cache, d the disk.
\* (hospLoad and portLoad are what the loader calls of the checkbox sections
\* return; they are used only where the checkbox is checked.)
Script(w, previous_layers_added, c, d, keep) ==
    Location(w, previous_layers_added, c, d, keep, CacheData(c.loc, ReadCsv(d.loc)))

Bump(n) == IF n < MaxReads THEN n + 1 ELSE n

\* The effect of a run r of session s on the state.
Commit(s, r) ==
    /\ cache' = r.cache
    /\ reads' = [l \in Loaders |-> IF l \in r.out.ran THEN Bump(reads[l]) ELSE reads[l]]
    /\ widgets' = [widgets EXCEPT ![s] = r.widgets]
    /\ out' = [out EXCEPT ![s] = r.out]
    /\ UNCHANGED <<disk, sessions>>

\* Session s runs the script with widget state w.
RunScript(s, w) ==
    \E keep \in BOOLEAN :
        Commit(s, Script(w, out[s].layers_added, cache, disk, keep))

----------------------------------------------------------------------------
(* Interactions *)

DropdownsShown(s) == out[s].status \in {"crashed", "rendered"}
CheckboxesShown(s) == out[s].status = "rendered"

\* The page is opened or reloaded, or the user asks for a rerun.
Rerun(s) == RunScript(s, widgets[s])

SelectAdmin1(s, i) ==
    /\ DropdownsShown(s)
    /\ i \in 1..Len(widgets[s].a1.opts)
    /\ i # widgets[s].a1.idx
    /\ RunScript(s, [widgets[s] EXCEPT !.a1.idx = i])

SelectAdmin2(s, i) ==
    /\ DropdownsShown(s)
    /\ i \in 1..Len(widgets[s].a2.opts)
    /\ i # widgets[s].a2.idx
    /\ RunScript(s, [widgets[s] EXCEPT !.a2.idx = i])

SelectAdmin3(s, i) ==
    /\ DropdownsShown(s)
    /\ i \in 1..Len(widgets[s].a3.opts)
    /\ i # widgets[s].a3.idx
    /\ RunScript(s, [widgets[s] EXCEPT !.a3.idx = i])

ToggleHospital(s) ==
    /\ CheckboxesShown(s)
    /\ RunScript(s, [widgets[s] EXCEPT !.hosp = ~@])

TogglePort(s) ==
    /\ CheckboxesShown(s)
    /\ RunScript(s, [widgets[s] EXCEPT !.port = ~@])

\* A file is replaced, removed or repaired on disk while the app is running.
ChangeDisk(l, content) ==
    /\ content # disk[l]
    /\ disk' = [disk EXCEPT ![l] = content]
    /\ UNCHANGED <<cache, reads, sessions, widgets, out>>

----------------------------------------------------------------------------
(* Specifications *)

EmptyCache ==
    [loc |-> [hit |-> FALSE, value |-> <<>>],
     hosp |-> [hit |-> FALSE, value |-> <<>>],
     port |-> [hit |-> FALSE, value |-> <<>>],
     geo |-> [hit |-> FALSE, value |-> GeoNone]]

\* The server has started and the sessions ss are connected; nothing has run.
Fresh(ss) ==
    /\ cache = EmptyCache
    /\ reads = [l \in Loaders |-> 0]
    /\ sessions = ss
    /\ widgets = [s \in ss |-> NoWidgets]
    /\ out = [s \in ss |-> NoRender]

SampleRow == [Admin1 |-> 1, Admin2 |-> 1, Admin3 |-> 1, Lat |-> 1, Lon |-> 3]
SampleFacility == [Name |-> 1, Lat |-> 2, Lon |-> 4]
SampleFeature == [hasADM2 |-> TRUE, ADM2_FR |-> 1]
SampleGeo == GeoFile(GeoCollection(<<SampleFeature>>))

\* Location rows of one province that differ in the district only.
DistrictRows == {r \in LocationRecord : r.Admin1 = 1 /\ r.Admin3 = 1 /\ r.Lat = 1}

\* Location rows that all lie at one place, and location rows of one province.
OnePlaceRows == {r \in LocationRecord : r.Lat = 1}
OneProvinceRows == {r \in LocationRecord : r.Admin1 = 1}

CsvFiles(records, n) == {CsvFile(t) : t \in SeqsUpTo(records, n)}

GeoFiles(n) ==
    {GeoMissing, GeoFile(GeoEmptyDict)}
        \cup {GeoFile(GeoCollection(fs)) : fs \in SeqsUpTo(BoundaryFeature, n)}

\* Spec: one session over files that fail, get repaired and change under the
\* running app.
DiskChoices(l) ==
    CASE l = "loc" -> {CsvBroken, CsvFile(<<SampleRow>>)}
      [] l = "hosp" -> {CsvBroken, CsvFile(<<SampleFacility>>)}
      [] l = "port" -> {CsvBroken, CsvFile(<<SampleFacility>>)}
      [] l = "geo" -> {GeoMissing, GeoMalformed, SampleGeo}

Init ==
    /\ disk \in [loc : DiskChoices("loc"), hosp : DiskChoices("hosp"),
                 port : DiskChoices("port"), geo : DiskChoices("geo")]
    /\ Fresh({1})

Next ==
    \/ \E s \in sessions : Rerun(s)
    \/ \E s \in sessions : ToggleHospital(s)
    \/ \E s \in sessions : TogglePort(s)
    \/ \E l \in Loaders : \E content \in DiskChoices(l) : ChangeDisk(l, content)

Spec == Init /\ [][Next]_vars

\* SpecCascade: one session drilling down through every location table of up
\* to MaxRows rows whose rows lie at one place or belong to one province.
InitCascade ==
    /\ disk \in [loc : CsvFiles(OnePlaceRows, MaxRows) \cup CsvFiles(OneProvinceRows, MaxRows),
                 hosp : {CsvFile(<<SampleFacility>>)},
                 port : {CsvFile(<<SampleFacility>>)},
                 geo : {SampleGeo}]
    /\ Fresh({1})

NextCascade ==
    \/ \E s \in sessions : Rerun(s)
    \/ \E s \in sessions : \E i \in 1..MaxRows : SelectAdmin1(s, i)
    \/ \E s \in sessions : \E i \in 1..MaxRows : SelectAdmin2(s, i)
    \/ \E s \in sessions : \E i \in 1..MaxRows : SelectAdmin3(s, i)

SpecCascade == InitCascade /\ [][NextCascade]_vars

\* The interactions of the specifications about the map's layers.
NextLayers ==
    \/ \E s \in sessions : Rerun(s)
    \/ \E s \in sessions : \E i \in 1..MaxRows : SelectAdmin2(s, i)
    \/ \E s \in sessions : ToggleHospital(s)
    \/ \E s \in sessions : TogglePort(s)

\* SpecOverlay: one session over every shapes file of up to MaxFeatures
\* features.
InitOverlay ==
    /\ disk \in [loc : CsvFiles(DistrictRows, 2),
                 hosp : {CsvBroken, CsvFile(<<SampleFacility>>)},
                 port : {CsvBroken, CsvFile(<<SampleFacility>>)},
                 geo : GeoFiles(MaxFeatures)]
    /\ Fresh({1})

SpecOverlay == InitOverlay /\ [][NextLayers]_vars

\* SpecFacility: one session over every hospital and port table of up to
\* MaxFacilities rows.
InitFacility ==
    /\ disk \in [loc : CsvFiles(DistrictRows, 2),
                 hosp : {CsvBroken} \cup CsvFiles(FacilityRecord, MaxFacilities),
                 port : {CsvBroken} \cup CsvFiles(FacilityRecord, MaxFacilities),
                 geo : {GeoMissing, SampleGeo}]
    /\ Fresh({1})

SpecFacility == InitFacility /\ [][NextLayers]_vars

\* SpecPair: two sessions over the same files.
InitPair ==
    /\ disk \in [loc : {CsvBroken} \cup CsvFiles(DistrictRows, 2),
                 hosp : {CsvBroken, CsvFile(<<SampleFacility>>)},
                 port : {CsvFile(<<SampleFacility>>)},
                 geo : {GeoMissing, SampleGeo}]
    /\ Fresh({1, 2})

SpecPair == InitPair /\ [][NextLayers]_vars

----------------------------------------------------------------------------
(* Properties *)

ToSet(q) == {q[i] : i \in 1..Len(q)}

\* strictly ascending: sorted and without duplicates
Ascending(q) == \A i \in 1..Len(q) : \A j \in 1..Len(q) : i < j => q[i] < q[j]

\* the location table the renders work on
Data == cache.loc.value

\* the rows of the table with this province, district and town, in file order
Matching(p, d, t) ==
    SelectSeq(Data, LAMBDA r : r.Admin1 = p /\ r.Admin2 = d /\ r.Admin3 = t)

MatchingSelection(s) ==
    Matching(out[s].selected_admin1, out[s].selected_admin2, out[s].selected_admin3)

\* C1: in every render the district options are exactly the distinct Admin2
\* values of the rows of the selected province, the town options exactly the
\* distinct Admin3 values of the rows of the selected province and district,
\* both ascending without duplicates, and final_data is exactly the rows that
\* carry the selected province, district and town.
C1_CascadeExact ==
    \A s \in sessions :
        DropdownsShown(s) =>
            /\ ToSet(out[s].admin2_options) =
                 {r.Admin2 : r \in {x \in ToSet(Data) : x.Admin1 = out[s].selected_admin1}}
            /\ Ascending(out[s].admin2_options)
            /\ ToSet(out[s].admin3_options) =
                 {r.Admin3 : r \in {x \in ToSet(Data) :
                                       /\ x.Admin1 = out[s].selected_admin1
                                       /\ x.Admin2 = out[s].selected_admin2}}
            /\ Ascending(out[s].admin3_options)
            /\ out[s].final_data = MatchingSelection(s)

\* A render over a table that lists district 2 before district 1 of one
\* province: both are offered, in ascending order.
C1_Witness ==
    \E s \in sessions :
        /\ DropdownsShown(s)
        /\ Len(Data) = 2
        /\ Data[1].Admin1 = Data[2].Admin1
        /\ Data[1].Admin2 > Data[2].Admin2
        /\ out[s].admin2_options = <<1, 2>>
        /\ out[s].selected_admin2 = 2

C3_CentreAndMarkers ==
    \A s \in sessions :
        (out[s].status = "rendered" /\ MatchingSelection(s) # <<>>) =>
            /\ out[s].map.centre = <<MatchingSelection(s)[1].Lat, MatchingSelection(s)[1].Lon>>
            /\ out[s].coordinates = out[s].map.centre
            /\ Len(out[s].map.markers) = Len(MatchingSelection(s))
            /\ \A i \in 1..Len(MatchingSelection(s)) :
                  /\ out[s].map.markers[i].Lat = MatchingSelection(s)[i].Lat
                  /\ out[s].map.markers[i].Lon = MatchingSelection(s)[i].Lon
            /\ Len(MatchingSelection(s)) = 1 =>
                  <<out[s].map.markers[1].Lat, out[s].map.markers[1].Lon>> = out[s].map.centre

\* Two records of one triple at different places: both are marked, the first
\* gives the centre.
C3_Witness ==
    \E s \in sessions :
        /\ out[s].status = "rendered"
        /\ Len(MatchingSelection(s)) = 2
        /\ MatchingSelection(s)[1].Lat # MatchingSelection(s)[2].Lat
        /\ Len(out[s].map.markers) = 2

\* the shapes document the renders work on
Shapes == cache.geo.value

\* C4: in every render the boundary features drawn are exactly the features
\* of the shapes file whose ADM2_FR property is a string equal to the chosen
\* district name; none is drawn when the file is absent, when no feature
\* carries that name, or when no district is chosen.
C4_BoundaryExact ==
    \A s \in sessions :
        out[s].status = "rendered" =>
            out[s].map.boundary.features =
                SelectSeq(Shapes.features,
                          LAMBDA f : f.hasADM2 /\ f.ADM2_FR = out[s].selected_admin2)

\* C9: in every render zero or one layer control is added, and one is added
\* if and only if the boundary overlay, the hospital layer or the port layer
\* has been added to the map in that render.
C9_LayerControlIffLayer ==
    \A s \in sessions :
        out[s].status = "rendered" =>
            /\ out[s].map.layer_controls \in {0, 1}
            /\ out[s].map.layer_controls = 1 <=>
                  \/ out[s].map.boundary.layer
                  \/ out[s].map.hospitals.present
                  \/ out[s].map.ports.present

LoadFailed(s, l) == l \in out[s].ran /\ ~cache[l].hit

\* C5 as claimed: whenever loading the location, hospital or port CSV fails
\* during a run, an error is shown and the run halts: no dropdown after the
\* failure is evaluated and no map is rendered.
C5_AnyLoadFailureHalts ==
    \A s \in sessions : \A l \in {"loc", "hosp", "port"} :
        LoadFailed(s, l) =>
            /\ out[s].errors # {}
            /\ out[s].status = "stopped"
            /\ out[s].map = NoMap

\* C5 as amended: a failed location load shows an error and halts the run
\* before any dropdown and without a map; a failed hospital or port load shows
\* an error, leaves that layer out, and the run goes on to the other facility
\* section and renders the map.
C5_LoadFailure ==
    \A s \in sessions :
        /\ LoadFailed(s, "loc") =>
              /\ out[s].errors = {"location"}
              /\ out[s].status = "stopped"
              /\ out[s].admin1_options = <<>> /\ out[s].admin2_options = <<>>
              /\ out[s].admin3_options = <<>>
              /\ out[s].map = NoMap
        /\ LoadFailed(s, "hosp") =>
              /\ "hospital" \in out[s].errors
              /\ out[s].status = "rendered"
              /\ ~out[s].map.hospitals.present
              /\ (widgets[s].port /\ cache.port.hit) => out[s].map.ports.present
        /\ LoadFailed(s, "port") =>
              /\ "port" \in out[s].errors
              /\ out[s].status = "rendered"
              /\ ~out[s].map.ports.present
              /\ (widgets[s].hosp /\ cache.hosp.hit) => out[s].map.hospitals.present

\* The hospital load failed in a run that went on to add the port layer and
\* render the map.
C5_Witness ==
    \E s \in sessions :
        /\ LoadFailed(s, "hosp")
        /\ out[s].status = "rendered"
        /\ out[s].map.ports.present

\* C6 as claimed: each data file is read from disk at most once in a session,
\* also across reruns that follow a failed load.
C6_ReadAtMostOnce == \A l \in Loaders : reads[l] <= 1

\* Every render works on what the cache holds, and a run that leaves a loader
\* without a stored value has run its body and failed.
C6_UsesSnapshot ==
    \A s \in sessions :
        /\ \A l \in Loaders : cache[l].hit => reads[l] >= 1
        /\ DropdownsShown(s) =>
              /\ cache.loc.hit
              /\ ToSet(out[s].admin1_options) = {r.Admin1 : r \in ToSet(cache.loc.value)}
        /\ out[s].status = "rendered" =>
              /\ cache.geo.hit
              /\ out[s].map.boundary.layer => cache.geo.value.kind = "collection"
              /\ out[s].map.hospitals.present =>
                    /\ cache.hosp.hit
                    /\ Len(out[s].map.hospitals.markers) = Len(cache.hosp.value)
              /\ out[s].map.ports.present =>
                    /\ cache.port.hit
                    /\ Len(out[s].map.ports.markers) = Len(cache.port.value)
        /\ (out[s].status # "none" /\ ~cache.loc.hit) => "loc" \in out[s].ran
        /\ (out[s].status = "rendered" /\ widgets[s].hosp /\ ~cache.hosp.hit) =>
              "hosp" \in out[s].ran
        /\ (out[s].status = "rendered" /\ widgets[s].port /\ ~cache.port.hit) =>
              "port" \in out[s].ran

\* Once a loader has returned, its stored value never changes and its body
\* never runs again.
C6_StoredStays ==
    \A l \in Loaders :
        cache[l].hit => (cache'[l] = cache[l] /\ reads'[l] = reads[l])

\* C6 as amended: each file is loaded successfully at most once: once a loader
\* has returned (a table, the shapes, or None for a missing shapes file) it is
\* not run again and every later render uses that snapshot whatever happens
\* to the file on disk; a load that raised stores nothing and is repeated by
\* the next run that reaches the loader.
C6_LoadedOnce == []C6_UsesSnapshot /\ [][C6_StoredStays]_vars

\* The stored "file not found" result and the stored location table are in
\* use although the shapes file has appeared and the location file has become
\* unreadable; the hospital file has been read twice, the first time failing.
C6_Witness ==
    \E s \in sessions :
        /\ out[s].status = "rendered"
        /\ cache.geo.hit /\ cache.geo.value = GeoNone /\ disk.geo = SampleGeo
        /\ cache.loc.hit /\ ~disk.loc.ok /\ reads.loc = 1
        /\ cache.hosp.hit /\ reads.hosp = 2
        /\ out[s].map.hospitals.present

\* what a run put on the page (not which loaders it ran, nor the script's flag)
Page(o) == [o EXCEPT !.ran = {}, !.layers_added = FALSE]

\* C7: no interaction changes the loaded tables, and what is rendered depends
\* on the loaded data and the widget values only: two sessions over the same
\* files with the same selections and checkbox states show the same page,
\* whatever their histories.
C7_SameInputsSameRender ==
    /\ \A l \in {"loc", "hosp", "port"} : cache[l].hit => cache[l].value = disk[l].rows
    /\ cache.geo.hit => cache.geo.value = LoadAdmin2Geojson(disk.geo).value
    /\ \A s1 \in sessions : \A s2 \in sessions :
          (/\ out[s1].status # "none"
           /\ out[s2].status # "none"
           /\ widgets[s1] = widgets[s2]) => Page(out[s1]) = Page(out[s2])

\* Two sessions show the second district with the hospital box checked; the
\* last run of one read the hospital file, the last run of the other found
\* everything in the cache.
C7_Witness ==
    /\ sessions = {1, 2}
    /\ out[1].status = "rendered" /\ out[2].status = "rendered"
    /\ widgets[1] = widgets[2]
    /\ widgets[1].hosp /\ widgets[1].a2.idx = 2
    /\ out[1].ran = {"hosp"} /\ out[2].ran = {}

\* the markers stand one per row at the row's Lat/Lon
MarkersAt(markers, rows) ==
    /\ Len(markers) = Len(rows)
    /\ \A i \in 1..Len(rows) : markers[i].Lat = rows[i].Lat /\ markers[i].Lon = rows[i].Lon

\* What the two facility layers are in every render.
C8_FacilityLayers ==
    \A s \in sessions :
        out[s].status = "rendered" =>
            /\ out[s].map.hospitals.present = (widgets[s].hosp /\ disk.hosp.ok)
            /\ MarkersAt(out[s].map.hospitals.markers,
                         IF out[s].map.hospitals.present THEN disk.hosp.rows ELSE <<>>)
            /\ out[s].map.ports.present = (widgets[s].port /\ disk.port.ok)
            /\ MarkersAt(out[s].map.ports.markers,
                         IF out[s].map.ports.present THEN disk.port.rows ELSE <<>>)
            /\ MarkersAt(out[s].map.markers, MatchingSelection(s))

\* A change of one checkbox leaves the other facility layer, the location
\* markers and the boundary overlay as they were.
C8_ToggleLeavesRest ==
    \A s \in sessions :
        (out[s].status = "rendered" /\ out'[s].status = "rendered") =>
            /\ widgets'[s].hosp # widgets[s].hosp =>
                  /\ out'[s].map.ports = out[s].map.ports
                  /\ out'[s].map.markers = out[s].map.markers
                  /\ out'[s].map.boundary = out[s].map.boundary
            /\ widgets'[s].port # widgets[s].port =>
                  /\ out'[s].map.hospitals = out[s].map.hospitals
                  /\ out'[s].map.markers = out[s].map.markers
                  /\ out'[s].map.boundary = out[s].map.boundary

\* C8: in every render the hospital layer is present iff its box is checked
\* and the hospital file loaded, with one marker per hospital row, whatever is
\* selected and whether or not a location record matched; the same for the
\* port layer; and the checkbox or load failure of one layer never changes the
\* other layer, the location markers or the boundary overlay.
C8_FacilityLayersIndependent == []C8_FacilityLayers /\ [][C8_ToggleLeavesRest]_vars

\* The hospital layer with its marker on the fallback map, while the port
\* box is checked and the port file failed to load.
C8_Witness ==
    \E s \in sessions :
        /\ out[s].status = "rendered"
        /\ out[s].no_data
        /\ out[s].map.hospitals.present /\ Len(out[s].map.hospitals.markers) = 1
        /\ widgets[s].port /\ "port" \in out[s].errors /\ ~out[s].map.ports.present

====
